---- MODULE Spec2Model ----
(***************************************************************************)
(* The browser side of the Dify chat application: the chat component      *)
(* (App.tsx, component App with fetchChatHistory and sendMessage) and the  *)
(* Slack landing page (pages/SlackIntegration.tsx, fetchInstallUrl).       *)
(*                                                                         *)
(* Text is a sequence of one-character strings, so that trim() is          *)
(* computed.  A JSON value that may be absent is a tagged record           *)
(* [type, val].  An async function is a process whose position is the      *)
(* await it is suspended at; the part of a handler between two awaits is   *)
(* one atomic action, as the JavaScript event loop runs it.  React commits *)
(* the state set by a handler before the next event is dispatched, so the  *)
(* rendered attributes and the handlers' closures are read from the state. *)
(***************************************************************************)
EXTENDS Integers, Sequences, FiniteSets, Bags, TLC

\* ---------------------------------------------------------------- bounds
MaxRows == 3        \* rows in one history response
MaxSends == 2       \* POST /api/chat requests of one session
MaxInputLen == 1    \* characters the user types into the input

\* ---------------------------------------------------------------- values
JUndefined == [type |-> "undefined", val |-> <<>>]
JNull == [type |-> "null", val |-> <<>>]
JStr(s) == [type |-> "string", val |-> s]

\* JavaScript truthiness of a value that is undefined, null or a string.
Truthy(v) == v.type = "string" /\ v.val # <<>>

\* The characters String.prototype.trim removes.
WhiteSpace == {" ", "\t", "\n", "\r"}

\* The characters of the keyboard of the model.
Chars == {" ", "h"}

RECURSIVE TextsOfLen(_)
TextsOfLen(n) ==
  IF n = 0 THEN {<<>>}
  ELSE {Append(t, c) : t \in TextsOfLen(n - 1), c \in Chars}

\* What the user can have typed into the text input.
InputTexts == UNION {TextsOfLen(n) : n \in 0..MaxInputLen}

RECURSIVE TrimStart(_)
TrimStart(s) ==
  IF s = <<>> THEN s
  ELSE IF Head(s) \in WhiteSpace THEN TrimStart(Tail(s)) ELSE s

RECURSIVE TrimEnd(_)
TrimEnd(s) ==
  IF s = <<>> THEN s
  ELSE IF s[Len(s)] \in WhiteSpace THEN TrimEnd(SubSeq(s, 1, Len(s) - 1)) ELSE s

\* Variant of Trim that removes nothing.
TrimIdentity(s) == s

\* String.prototype.trim
Trim(s) == TrimEnd(TrimStart(s))

\* The fixed apology sendMessage shows in place of a reply (a Japanese
\* sentence in the source; one token here, distinct from every other text).
FallbackMessage == <<"An error occurred while sending the message. Please try again.">>

\* The text the Slack page shows when the install URL cannot be fetched.
InstallUrlError == <<"Failed to get the install URL.">>

\* ---------------------------------------------------------------- time
\* new Date(ts).getTime() of the timestamp strings of the model, in seconds
\* after 2024-01-01T00:00:00Z.  The first two strings denote one instant.
DateGetTime(ts) ==
  CASE ts = "2024-01-01T09:00:01+09:00" -> 1
    [] ts = "2024-01-01T00:00:01Z" -> 1
    [] ts = "2024-01-01T00:00:02Z" -> 2
    [] ts = "2024-01-01T00:00:03.000Z" -> 3

\* What new Date().toISOString() returns while the session runs.
ClockReadings == {"2024-01-01T00:00:03.000Z"}

\* ---------------------------------------------------------------- history rows
Row(u, a, ts, cid) ==
  [user_message |-> u, assistant_message |-> a, timestamp |-> ts,
   conversation_id |-> JStr(cid)]

\* The turns the conversations table can hold.
StoredRows ==
  { Row(<<"A">>, <<"B">>, "2024-01-01T09:00:01+09:00", <<"x">>),
    Row(<<"C">>, <<"D">>, "2024-01-01T00:00:02Z", <<"x">>),
    Row(<<"E">>, <<"F">>, "2024-01-01T00:00:01Z", <<"y">>),
    Row(<<"G">>, <<"H">>, "2024-01-01T00:00:02Z", <<"y">>) }

RowCount == IF MaxRows < Cardinality(StoredRows) THEN MaxRows ELSE Cardinality(StoredRows)

\* Every selection of stored turns, in every order.
RowArrays ==
  UNION { { s \in [1..n -> StoredRows] : \A i, j \in 1..n : i # j => s[i] # s[j] }
          : n \in 0..RowCount }

\* The body of a 2xx answer of GET /api/chat/history: a bare array of turns,
\* or the documented object {"conversations": [...]}.
HistoryBodies ==
  { [kind |-> k, rows |-> r] : k \in {"array", "object"}, r \in RowArrays }

NoBody == [kind |-> "none", rows |-> <<>>]

\* Array.isArray(data)
IsArray(body) == body.kind = "array"

\* Variant of the comparator with the operands exchanged.
CompareDescending(a, b) == DateGetTime(b.timestamp) - DateGetTime(a.timestamp)

\* The comparator of the sort: a.getTime() - b.getTime()
CompareTimestamp(a, b) == DateGetTime(a.timestamp) - DateGetTime(b.timestamp)

\* One step of a stable sort: x goes behind every element that does not
\* compare greater than it.
RECURSIVE Insert(_, _)
Insert(sorted, x) ==
  IF sorted = <<>> THEN <<x>>
  ELSE IF CompareTimestamp(Head(sorted), x) <= 0
       THEN <<Head(sorted)>> \o Insert(Tail(sorted), x)
       ELSE <<x>> \o sorted

\* [...data].sort(comparator): Array.prototype.sort is stable.
RECURSIVE SortByTimestamp(_)
SortByTimestamp(data) ==
  IF data = <<>> THEN <<>>
  ELSE Insert(SortByTimestamp(SubSeq(data, 1, Len(data) - 1)), data[Len(data)])

\* Variant of FormatMessages with the two messages of a turn exchanged.
RECURSIVE FormatAssistantFirst(_)
FormatAssistantFirst(rows) ==
  IF rows = <<>> THEN <<>>
  ELSE << [role |-> "assistant", content |-> Head(rows).assistant_message,
           timestamp |-> Head(rows).timestamp],
          [role |-> "user", content |-> Head(rows).user_message,
           timestamp |-> Head(rows).timestamp] >>
       \o FormatAssistantFirst(Tail(rows))

\* sortedData.map(msg => [user, assistant]).flat()
RECURSIVE FormatMessages(_)
FormatMessages(rows) ==
  IF rows = <<>> THEN <<>>
  ELSE << [role |-> "user", content |-> Head(rows).user_message,
           timestamp |-> Head(rows).timestamp],
          [role |-> "assistant", content |-> Head(rows).assistant_message,
           timestamp |-> Head(rows).timestamp] >>
       \o FormatMessages(Tail(rows))

\* ---------------------------------------------------------------- responses
\* The bodies a 2xx answer of POST /api/chat can carry: message and
\* conversation_id present, empty or missing.
ChatBodies ==
  { [message |-> m, conversation_id |-> c, timestamp |-> "2024-01-01T00:00:02Z"] :
      m \in {JUndefined, JStr(<<>>), JStr(<<"R">>)},
      c \in {JUndefined, JStr(<<"z">>)} }

\* The bodies a 2xx answer of GET /api/slack/install can carry.
InstallBodies ==
  { [install_url |-> u] : u \in {JUndefined, JStr(<<"u1">>), JStr(<<"u2">>)} }

\* Variant of HttpError without the status check.
HttpErrorNever(ok) == FALSE

\* if (!response.ok) throw
HttpError(ok) == ~ok

\* Variant of InvalidResponse without the conversation_id check.
InvalidOnlyWithoutMessage(data) == ~Truthy(data.message)

\* if (!data.message || !data.conversation_id) throw
InvalidResponse(data) == ~Truthy(data.message) \/ ~Truthy(data.conversation_id)

\* ---------------------------------------------------------------- state
VARIABLES
  route,           \* the path the router renders: "/" or "/slack/install"
  messages,        \* App: useState<Message[]>([])
  input,           \* App: useState('')
  isLoading,       \* App: useState(false)
  conversationId,  \* App: useState<string | null>(null)
  hpc,             \* where fetchChatHistory is: "init", "fetch", "json", "done"
  data,            \* fetchChatHistory: the parsed body
  sortedData,      \* fetchChatHistory: the sorted copy of data
  sends,           \* the calls of sendMessage that are suspended at an await
  posts,           \* the number of POST /api/chat requests issued
  lastReplyId,     \* the conversation_id of the last reply sendMessage accepted
  installUrl,      \* SlackIntegration: useState<string>('')
  slackIsLoading,  \* SlackIntegration: useState(true)
  error,           \* SlackIntegration: useState<string | null>(null)
  spc,             \* where fetchInstallUrl is: "init", "fetch", "json", "done"
  gets,            \* the number of GET /api/slack/install requests issued
  event            \* the event the last handler or continuation ran on

chatVars == <<messages, input, isLoading, conversationId, sends, posts, lastReplyId>>
historyVars == <<hpc, data, sortedData>>
slackVars == <<installUrl, slackIsLoading, error, spc, gets>>
vars == <<route, chatVars, historyVars, slackVars, event>>

Init ==
  /\ route \in {"/", "/slack/install"}
  /\ messages = <<>>
  /\ input = <<>>
  /\ isLoading = FALSE
  /\ conversationId = JNull
  /\ hpc = "init"
  /\ data = NoBody
  /\ sortedData = <<>>
  /\ sends = <<>>
  /\ posts = 0
  /\ lastReplyId = JNull
  /\ installUrl = JStr(<<>>)
  /\ slackIsLoading = TRUE
  /\ error = JNull
  /\ spc = "init"
  /\ gets = 0
  /\ event = [op |-> "load"]

\* ---------------------------------------------------------------- chat: history
\* useEffect(() => { fetchChatHistory() }, []): the GET is issued.
ChatMount ==
  /\ route = "/"
  /\ hpc = "init"
  /\ hpc' = "fetch"
  /\ event' = [op |-> "chat.mount"]
  /\ UNCHANGED <<route, chatVars, data, sortedData, slackVars>>

\* fetchChatHistory after await fetch(...): a rejection and a non-2xx status
\* end in the catch block.
fetchChatHistoryAfterFetch ==
  /\ hpc = "fetch"
  /\ \E settled \in {"rejected", "resolved"}, ok \in BOOLEAN :
       /\ settled = "rejected" => ok = FALSE
       /\ event' = [op |-> "history.fetch", settled |-> settled, ok |-> ok]
       /\ hpc' = IF settled = "rejected" \/ HttpError(ok) THEN "done" ELSE "json"
  /\ UNCHANGED <<route, chatVars, data, sortedData, slackVars>>

\* fetchChatHistory after await response.json().
fetchChatHistoryAfterJson ==
  /\ hpc = "json"
  /\ hpc' = "done"
  /\ \/ /\ event' = [op |-> "history.json", settled |-> "rejected"]
        /\ UNCHANGED <<data, sortedData, messages, conversationId>>
     \/ \E body \in HistoryBodies :
          /\ event' = [op |-> "history.json", settled |-> "resolved"]
          /\ data' = body
          /\ IF ~IsArray(body)
             THEN UNCHANGED <<sortedData, messages, conversationId>>
             ELSE LET sorted == SortByTimestamp(body.rows) IN
                  /\ sortedData' = sorted
                  /\ messages' = FormatMessages(sorted)
                  /\ conversationId' =
                       IF Len(sorted) > 0 THEN sorted[Len(sorted)].conversation_id
                       ELSE conversationId
  /\ UNCHANGED <<route, input, isLoading, sends, posts, lastReplyId, slackVars>>

\* ---------------------------------------------------------------- chat: sending
\* Variant of Disabled without the disabled attribute.
NeverDisabled == FALSE

\* disabled={isLoading} on the text input and on the send button
Disabled == isLoading

\* onChange={(e) => setInput(e.target.value)}
onChange ==
  /\ route = "/"
  /\ hpc # "init"
  /\ ~Disabled
  /\ \E value \in InputTexts :
       /\ value # input
       /\ input' = value
  /\ event' = [op |-> "onChange"]
  /\ UNCHANGED <<route, messages, isLoading, conversationId, sends, posts,
                 lastReplyId, historyVars, slackVars>>

\* sendMessage up to await fetch(...), called by Enter in the input or by a
\* click on the button.
sendMessage ==
  /\ route = "/"
  /\ hpc # "init"
  /\ ~Disabled
  /\ event' = [op |-> "sendMessage"]
  /\ IF Trim(input) = <<>>
     THEN UNCHANGED <<messages, input, isLoading, sends, posts>>
     ELSE /\ posts < MaxSends
          /\ \E now \in ClockReadings :
               messages' = Append(messages,
                                  [role |-> "user", content |-> input, timestamp |-> now])
          /\ input' = <<>>
          /\ isLoading' = TRUE
          /\ sends' = Append(sends, [message |-> input,
                                     conversation_id |-> conversationId,
                                     pc |-> "fetch"])
          /\ posts' = posts + 1
  /\ UNCHANGED <<route, conversationId, lastReplyId, historyVars, slackVars>>

Remove(s, i) == SubSeq(s, 1, i - 1) \o SubSeq(s, i + 1, Len(s))

\* The catch block and the finally block of sendMessage.
SendFailed(i) ==
  /\ \E now \in ClockReadings :
       messages' = Append(messages, [role |-> "assistant", content |-> FallbackMessage,
                                     timestamp |-> now])
  /\ isLoading' = FALSE
  /\ sends' = Remove(sends, i)
  /\ UNCHANGED <<conversationId, lastReplyId>>

\* sendMessage after await fetch(...).
sendMessageAfterFetch ==
  \E i \in 1..Len(sends) :
    /\ sends[i].pc = "fetch"
    /\ \E settled \in {"rejected", "resolved"}, ok \in BOOLEAN :
         /\ settled = "rejected" => ok = FALSE
         /\ event' = [op |-> "chat.fetch", settled |-> settled, ok |-> ok]
         /\ IF settled = "rejected" \/ HttpError(ok)
            THEN SendFailed(i)
            ELSE /\ sends' = [sends EXCEPT ![i].pc = "json"]
                 /\ UNCHANGED <<messages, isLoading, conversationId, lastReplyId>>
    /\ UNCHANGED <<route, input, posts, historyVars, slackVars>>

\* sendMessage after await response.json().
sendMessageAfterJson ==
  \E i \in 1..Len(sends) :
    /\ sends[i].pc = "json"
    /\ \/ /\ event' = [op |-> "chat.json", settled |-> "rejected"]
          /\ SendFailed(i)
       \/ \E body \in ChatBodies :
            /\ event' = [op |-> "chat.json", settled |-> "resolved", body |-> body]
            /\ IF InvalidResponse(body)
               THEN SendFailed(i)
               ELSE /\ conversationId' = body.conversation_id
                    /\ lastReplyId' = body.conversation_id
                    /\ messages' = Append(messages,
                                          [role |-> "assistant",
                                           content |-> body.message.val,
                                           timestamp |-> body.timestamp])
                    /\ isLoading' = FALSE
                    /\ sends' = Remove(sends, i)
    /\ UNCHANGED <<route, input, posts, historyVars, slackVars>>

\* ---------------------------------------------------------------- Slack page
\* useEffect(() => { fetchInstallUrl() }, []): the GET is issued.
SlackMount ==
  /\ route = "/slack/install"
  /\ spc = "init"
  /\ spc' = "fetch"
  /\ gets' = gets + 1
  /\ event' = [op |-> "slack.mount"]
  /\ UNCHANGED <<route, chatVars, historyVars, installUrl, slackIsLoading, error>>

\* fetchInstallUrl after await fetch(...).
fetchInstallUrlAfterFetch ==
  /\ spc = "fetch"
  /\ \E settled \in {"rejected", "resolved"}, ok \in BOOLEAN :
       /\ settled = "rejected" => ok = FALSE
       /\ event' = [op |-> "slack.fetch", settled |-> settled, ok |-> ok]
       /\ IF settled = "rejected" \/ HttpError(ok)
          THEN /\ error' = JStr(InstallUrlError)
               /\ slackIsLoading' = FALSE
               /\ spc' = "done"
          ELSE /\ spc' = "json"
               /\ UNCHANGED <<error, slackIsLoading>>
  /\ UNCHANGED <<route, chatVars, historyVars, installUrl, gets>>

\* fetchInstallUrl after await response.json().
fetchInstallUrlAfterJson ==
  /\ spc = "json"
  /\ spc' = "done"
  /\ slackIsLoading' = FALSE
  /\ \/ /\ event' = [op |-> "slack.json", settled |-> "rejected"]
        /\ error' = JStr(InstallUrlError)
        /\ UNCHANGED installUrl
     \/ \E body \in InstallBodies :
          /\ event' = [op |-> "slack.json", settled |-> "resolved", body |-> body]
          /\ installUrl' = body.install_url
          /\ UNCHANGED error
  /\ UNCHANGED <<route, chatVars, historyVars, gets>>

\* What SlackIntegration returns: the loading text, the error text, or the
\* page with the install link.
SlackView ==
  IF slackIsLoading THEN "loading"
  ELSE IF Truthy(error) THEN "error"
  ELSE "ready"

\* The loading view and the error view render no install link.
NoLink == [type |-> "none", val |-> <<>>]

\* The href of the install link, when the link is rendered.
Href == IF SlackView = "ready" THEN installUrl ELSE NoLink

\* ---------------------------------------------------------------- specification
Next ==
  \/ ChatMount
  \/ fetchChatHistoryAfterFetch
  \/ fetchChatHistoryAfterJson
  \/ onChange
  \/ sendMessage
  \/ sendMessageAfterFetch
  \/ sendMessageAfterJson
  \/ SlackMount
  \/ fetchInstallUrlAfterFetch
  \/ fetchInstallUrlAfterJson

Spec == Init /\ [][Next]_vars

\* ---------------------------------------------------------------- claims
Last(s) == s[Len(s)]

IsPrefix(s, t) == Len(s) <= Len(t) /\ SubSeq(t, 1, Len(s)) = s

SeqToBag(s) ==
  [x \in {s[i] : i \in DOMAIN s} |-> Cardinality({i \in DOMAIN s : s[i] = x})]

NonDecreasing(rows) ==
  \A i, j \in DOMAIN rows :
    i < j => DateGetTime(rows[i].timestamp) <= DateGetTime(rows[j].timestamp)

\* The step shows the turns of rows: two messages per turn, user then
\* assistant, the turns in an ascending timestamp order, and the conversation
\* id of the last turn of that order (the one held before, when there is none).
ShowsTurns(rows) ==
  LET n == Len(rows) IN
  /\ Len(messages') = 2 * n
  /\ n = 0 => conversationId' = conversationId
  /\ \E p \in Permutations(1..n) :
       /\ NonDecreasing([i \in 1..n |-> rows[p[i]]])
       /\ \A i \in 1..n :
            /\ messages'[2 * i - 1].role = "user"
            /\ messages'[2 * i - 1].content = rows[p[i]].user_message
            /\ messages'[2 * i].role = "assistant"
            /\ messages'[2 * i].content = rows[p[i]].assistant_message
       /\ n > 0 => conversationId' = rows[p[n]].conversation_id

\* fetchChatHistory has just read a 2xx body of the given kind.
HistoryRead(kind) ==
  /\ hpc = "json"
  /\ event'.op = "history.json"
  /\ event'.settled = "resolved"
  /\ data'.kind = kind

\* C1: when fetchChatHistory completes on a 2xx array of n rows, the message
\* list is exactly the 2n messages of the rows in ascending timestamp order,
\* user before assistant, and conversationId is the conversation_id of the
\* last row of that order (unchanged when n = 0).
C1_HistoryShown == [][HistoryRead("array") => ShowsTurns(data'.rows)]_vars

C1_Witness ==
  /\ event.op = "history.json"
  /\ IsArray(data)
  /\ Len(data.rows) = 3
  /\ ~NonDecreasing(data.rows)
  /\ Len(messages) = 6
  /\ conversationId = JStr(<<"x">>)

\* C2: the rows fetchChatHistory builds the list from are in non-decreasing
\* timestamp order and are a permutation of the rows received, whatever the
\* order the server sent them in.
C2_SortedPermutation ==
  IsArray(data) =>
    /\ NonDecreasing(sortedData)
    /\ SeqToBag(sortedData) = SeqToBag(data.rows)

C2_Witness ==
  /\ IsArray(data)
  /\ Len(data.rows) = 3
  /\ ~NonDecreasing(data.rows)
  /\ \E i, j \in DOMAIN data.rows :
       /\ i # j
       /\ data.rows[i].timestamp # data.rows[j].timestamp
       /\ DateGetTime(data.rows[i].timestamp) = DateGetTime(data.rows[j].timestamp)
  /\ sortedData # data.rows

IsBlank(s) == \A i \in DOMAIN s : s[i] \in WhiteSpace

\* C3: sendMessage on an empty or whitespace-only input issues no POST and
\* leaves messages, input, isLoading and conversationId as they are.
C3_BlankInputIgnored ==
  [][event'.op = "sendMessage" /\ IsBlank(input) =>
       UNCHANGED <<messages, input, isLoading, conversationId, sends, posts>>]_vars

C3_Witness ==
  /\ event.op = "sendMessage"
  /\ input # <<>>
  /\ IsBlank(input)
  /\ sends = <<>>
  /\ ~isLoading

Lacks(v) == v.type \in {"undefined", "null"}

\* The event is a failed send: the request rejected, the status was not 2xx,
\* the body could not be read, or the body lacks message or conversation_id.
SendFailure(e) ==
  \/ e.op = "chat.fetch" /\ (e.settled = "rejected" \/ ~e.ok)
  \/ e.op = "chat.json" /\ e.settled = "rejected"
  \/ /\ e.op = "chat.json"
     /\ e.settled = "resolved"
     /\ (Lacks(e.body.message) \/ Lacks(e.body.conversation_id))

\* C4: a failed send appends exactly one message, an assistant message with
\* the fallback text, and leaves isLoading false.
C4_FailureShowsFallback ==
  [][SendFailure(event') =>
       /\ \E m \in {messages'[i] : i \in DOMAIN messages'} :
            /\ messages' = Append(messages, m)
            /\ m.role = "assistant"
            /\ m.content = FallbackMessage
       /\ isLoading' = FALSE
       /\ ~Disabled']_vars

C4_Witness ==
  /\ event.op = "chat.json"
  /\ event.settled = "resolved"
  /\ Truthy(event.body.message)
  /\ Lacks(event.body.conversation_id)
  /\ Last(messages).content = FallbackMessage
  /\ ~isLoading

\* C5: an accepted submission appends the user message, clears the input and
\* sets isLoading with the request; isLoading stays true while the request is
\* outstanding; and when it settles isLoading is false and one assistant
\* message is appended behind that user message.
C5_SendCycle ==
  [][/\ posts' = posts + 1 =>
          /\ ~isLoading
          /\ Len(messages') = Len(messages) + 1
          /\ IsPrefix(messages, messages')
          /\ Last(messages').role = "user"
          /\ Last(messages').content = input
          /\ input' = <<>>
          /\ isLoading'
          /\ Len(sends') = Len(sends) + 1
     /\ sends' # <<>> => isLoading'
     /\ Len(sends') < Len(sends) =>
          /\ ~isLoading'
          /\ Len(messages') = Len(messages) + 1
          /\ IsPrefix(messages, messages')
          /\ Last(messages').role = "assistant"
          /\ Len(messages) > 0
          /\ Last(messages).role = "user"
          /\ Last(messages).content = sends[1].message]_vars

\* C6: at most one POST /api/chat is outstanding, and isLoading is true
\* exactly while one is.
C6_SingleInFlight ==
  /\ Len(sends) <= 1
  /\ isLoading <=> Len(sends) = 1

C6_Witness ==
  /\ Len(sends) = 1
  /\ sends[1].pc = "json"
  /\ posts >= 2
  /\ isLoading

\* The conversation id a new request is to carry: that of the last accepted
\* reply, else that of the latest history row, else null.
ExpectedId ==
  IF lastReplyId # JNull THEN lastReplyId
  ELSE IF IsArray(data) /\ sortedData # <<>> THEN Last(sortedData).conversation_id
  ELSE JNull

\* C7: each request carries the conversation_id of the most recent accepted
\* reply (of the latest history row when there is none yet, else null), and a
\* failed send leaves conversationId as it is.
C7_IdPassedThrough ==
  [][/\ posts' = posts + 1 => Last(sends').conversation_id = ExpectedId
     /\ SendFailure(event') => conversationId' = conversationId]_vars

SlackFailure(e) ==
  \/ e.op = "slack.fetch" /\ (e.settled = "rejected" \/ ~e.ok)
  \/ e.op = "slack.json" /\ e.settled = "rejected"

SlackSuccess(e) == e.op = "slack.json" /\ e.settled = "resolved"

\* C8: the Slack page issues its GET once, on mount; it leaves loading only
\* on the outcome of that request and never returns to it; a failed request
\* ends in the error view with no link, a successful one in the ready view
\* with no error and the returned install_url as the href.
C8_SlackPage ==
  [][/\ gets' = (IF spc' = "init" THEN 0 ELSE 1)
     /\ ~slackIsLoading => ~slackIsLoading' /\ UNCHANGED <<installUrl, error>>
     /\ slackIsLoading /\ ~slackIsLoading' => SlackFailure(event') \/ SlackSuccess(event')
     /\ SlackFailure(event') =>
          /\ SlackView' = "error"
          /\ error' = JStr(InstallUrlError)
          /\ Href' = NoLink
     /\ SlackSuccess(event') =>
          /\ SlackView' = "ready"
          /\ error' = JNull
          /\ Href' = event'.body.install_url]_vars

C8_Witness ==
  /\ spc = "done"
  /\ gets = 1
  /\ SlackView = "ready"
  /\ Href = JStr(<<"u1">>)

\* C9: when GET /api/chat/history answers 2xx with the documented object
\* {"conversations": [...]} of n turns, the chat shows the 2n messages of
\* the turns and takes conversationId from the last one.
C9_DocumentedShapeShown == [][HistoryRead("object") => ShowsTurns(data'.rows)]_vars

\* C10: once the user has submitted, the message list only grows at its end.
C10_AppendOnly == [][posts > 0 => IsPrefix(messages, messages')]_vars

====
